---- MODULE Spec2Model ----
(***************************************************************************)
(* DocuForge: the dispatcher (docuforge_bridge.py) and the three stage     *)
(* jobs it launches (clip_ranker.py, generate_voiceover.py,                *)
(* assemble_video.py), with the filesystem working directory and the       *)
(* external tools (ffmpeg, ffprobe, tts) as the environment.               *)
(***************************************************************************)
EXTENDS Integers, Sequences, FiniteSets, TLC

VARIABLES
    fs,        \* the filesystem: existing files and directories, list-of-sources content
    phase,     \* dispatcher: position of the request being handled
    stage,     \* dispatcher: which endpoint received the request
    body,      \* dispatcher: the request body
    response,  \* dispatcher: the HTTP response returned
    job,       \* the stage job process started by the dispatcher (a script of scripts/)
    loc,       \* locals of the stage job's main function
    tool,      \* the external tool process the stage job is blocked on
    launched,  \* the processes launched for the current request, in launch order
    served,    \* number of requests received so far
    parked     \* the handler of a concurrent request while it is not the one stepping

vars == <<fs, phase, stage, body, response, job, loc, tool, launched, served, parked>>

----------------------------------------------------------------------------
(* Bounds of the model *)

MaxVideos == 2
MaxRequests == 2
LongListLen == 22
TickSecs == 400

(* Program constants *)

EncoderTimeoutSecs == 600
ProbeTimeoutSecs == 10

None == "<None>"
SceneIds == {1, 2, 3}
VideoIds == {1, 2}
ProjectIds == {"p1"}

Min(a, b) == IF a < b THEN a ELSE b
Max(a, b) == IF a > b THEN a ELSE b

\* sep.join(strs); the list is evaluated once, then folded from the left
Join(strs, sep) ==
    CHOOSE text \in
        { LET joined[k \in 0..Len(list)] ==
                  IF k = 0 THEN ""
                  ELSE IF k = 1 THEN list[1]
                  ELSE joined[k - 1] \o sep \o list[k]
          IN  joined[Len(list)] : list \in {strs} } : TRUE

\* ''.join(strs)
Concat(strs) ==
    CHOOSE text \in
        { LET joined[k \in 0..Len(list)] ==
                  IF k = 0 THEN "" ELSE joined[k - 1] \o list[k]
          IN  joined[Len(list)] : list \in {strs} } : TRUE

SeqsUpTo(S, n) == UNION {[1..k -> S] : k \in 0..n}

----------------------------------------------------------------------------
(* Filesystem layout *)

ProjectDir(pid) == "/tmp/docuforge/" \o pid
OutputFile(pid) == ProjectDir(pid) \o "/" \o pid \o "_final.mp4"
ClipPath(pid, sid) == ProjectDir(pid) \o "/clip_" \o ToString(sid) \o ".mp4"
ConcatFile(pid) == ProjectDir(pid) \o "/concat_list.txt"
SharedVoiceoverFile(pid) == "/tmp/docuforge/voiceover.wav"
VoiceoverFile(pid) == ProjectDir(pid) \o "/" \o pid \o "_voiceover.wav"
LutPath == "/usr/local/share/luts/documentary.cube"

Exists(f, path) == path \in f.files

\* Python truthiness of an optional string
Truthy(s) == s # None /\ s # ""

----------------------------------------------------------------------------
(* The render plan: an ffmpeg command.  inputs are the -i arguments in     *)
(* order; vf is the -vf filter chain (joined by ","); filter_complex is    *)
(* the list of filter chains (joined by ";"), each with its input pads,    *)
(* its filters and its output pads; maps are the -map arguments.           *)

InPad(i, s) == [kind |-> "in", idx |-> i, s |-> s]
IdxLabel(s, i) == [kind |-> "lbl", idx |-> i, s |-> s]
Label(s) == [kind |-> "lbl", idx |-> -1, s |-> s]

LabelText(l) ==
    IF l.kind = "in" THEN "[" \o ToString(l.idx) \o ":" \o l.s \o "]"
    ELSE IF l.idx >= 0 THEN "[" \o l.s \o ToString(l.idx) \o "]"
    ELSE "[" \o l.s \o "]"

Chain(ins, filters, outs) == [ins |-> ins, filters |-> filters, outs |-> outs]

ChainText(c) ==
    Concat([k \in 1..Len(c.ins) |-> LabelText(c.ins[k])])
    \o Join(c.filters, ",")
    \o Concat([k \in 1..Len(c.outs) |-> LabelText(c.outs[k])])

ScaleFilter == "scale=1920:1080:force_original_aspect_ratio=decrease"
PadFilter == "pad=1920:1080:(ow-iw)/2:(oh-ih)/2"
AmixFilter == "amix=inputs=2:duration=longest"
VolumeFilter(w) == "volume=" \o w
ConcatFilter(n, v, a) ==
    "concat=n=" \o ToString(n) \o ":v=" \o ToString(v) \o ":a=" \o ToString(a)
Lut3dFilter == "lut3d=" \o LutPath

CodecArgs ==
    << "-c:v", "libx264", "-preset", "medium", "-crf", "23",
       "-c:a", "aac", "-b:a", "192k", "-ar", "44100",
       "-movflags", "+faststart" >>

\* voiceover_path and Path(voiceover_path).exists()
VoiceoverUsable(f, voiceover_path) ==
    Truthy(voiceover_path) /\ Exists(f, voiceover_path)

\* line 112: the single-clip audio mix
SingleMixChains ==
    << Chain(<<InPad(0, "a")>>, <<VolumeFilter("0.3")>>, <<Label("a1")>>),
       Chain(<<InPad(1, "a")>>, <<VolumeFilter("1.0")>>, <<Label("a2")>>),
       Chain(<<Label("a1"), Label("a2")>>, <<AmixFilter>>, <<>>) >>

build_single_clip_command(f, clip_path, voiceover_path, output_path) ==
    [ inputs |-> <<clip_path>> \o
                 (IF VoiceoverUsable(f, voiceover_path) THEN <<voiceover_path>> ELSE <<>>),
      vf |-> <<ScaleFilter, PadFilter>> \o
             (IF Exists(f, LutPath) THEN <<Lut3dFilter>> ELSE <<>>),
      filter_complex |->
          IF VoiceoverUsable(f, voiceover_path) THEN SingleMixChains ELSE <<>>,
      maps |-> <<>>,
      codec |-> CodecArgs,
      output |-> output_path ]

\* for i in range(len(clip_files)): '[{i}:v]scale=...,pad=...[v{i}]'
ScaleChains(n) ==
    [k \in 1..n |->
        Chain(<<InPad(k - 1, "v")>>, <<ScaleFilter, PadFilter>>, <<IdxLabel("v", k - 1)>>)]

\* ''.join([f'[v{i}]' for i in range(len(clip_files))]) + 'concat=n=N:v=1:a=0[vout]'
VideoConcatChain(n) ==
    Chain([k \in 1..n |-> IdxLabel("v", k - 1)], <<ConcatFilter(n, 1, 0)>>, <<Label("vout")>>)

\* ''.join([f'[{i}:a]' for i in range(len(clip_files))]) + 'concat=n=N:v=0:a=1[out]'
AudioConcatChain(n, out) ==
    Chain([k \in 1..n |-> InPad(k - 1, "a")], <<ConcatFilter(n, 0, 1)>>, <<Label(out)>>)

AudioChainsVoiceoverIndexOffByOne(n, vo) ==
    IF vo
    THEN << AudioConcatChain(n, "audioconcat"),
            Chain(<<Label("audioconcat")>>, <<VolumeFilter("0.2")>>, <<Label("a1")>>),
            Chain(<<InPad(n + 1, "a")>>, <<VolumeFilter("1.0")>>, <<Label("a2")>>),
            Chain(<<Label("a1"), Label("a2")>>, <<AmixFilter>>, <<Label("aout")>>) >>
    ELSE << AudioConcatChain(n, "aout") >>

AudioChainsSingleClipWeight(n, vo) ==
    IF vo
    THEN << AudioConcatChain(n, "audioconcat"),
            Chain(<<Label("audioconcat")>>, <<VolumeFilter("0.3")>>, <<Label("a1")>>),
            Chain(<<InPad(n, "a")>>, <<VolumeFilter("1.0")>>, <<Label("a2")>>),
            Chain(<<Label("a1"), Label("a2")>>, <<AmixFilter>>, <<Label("aout")>>) >>
    ELSE << AudioConcatChain(n, "aout") >>

\* lines 163-181: the multi-clip audio graph
MultiAudioChains(n, vo) ==
    LET voiceover_index == n
    IN  IF vo
        THEN << AudioConcatChain(n, "audioconcat"),
                Chain(<<Label("audioconcat")>>, <<VolumeFilter("0.2")>>, <<Label("a1")>>),
                Chain(<<InPad(voiceover_index, "a")>>, <<VolumeFilter("1.0")>>, <<Label("a2")>>),
                Chain(<<Label("a1"), Label("a2")>>, <<AmixFilter>>, <<Label("aout")>>) >>
        ELSE << AudioConcatChain(n, "aout") >>

build_multi_clip_command(f, clip_files, voiceover_path, output_path, concat_file) ==
    LET n == Len(clip_files)
        vo == VoiceoverUsable(f, voiceover_path)
    IN  [ inputs |-> clip_files \o (IF vo THEN <<voiceover_path>> ELSE <<>>),
          vf |-> <<>>,
          filter_complex |->
              ScaleChains(n) \o <<VideoConcatChain(n)>> \o MultiAudioChains(n, vo),
          maps |-> <<Label("vout"), Label("aout")>>,
          codec |-> CodecArgs,
          output |-> output_path ]

\* The argument vector the plan stands for (cmd of the source).
Flag(flag, args) ==
    CHOOSE cmd \in
        { LET extended[k \in 0..Len(list)] ==
                  IF k = 0 THEN <<>> ELSE extended[k - 1] \o <<flag, list[k]>>
          IN  extended[Len(list)] : list \in {args} } : TRUE

Argv(cmd) ==
    <<"ffmpeg", "-y">>
    \o Flag("-i", cmd.inputs)
    \o (IF cmd.vf # <<>> THEN <<"-vf", Join(cmd.vf, ",")>> ELSE <<>>)
    \o (IF cmd.filter_complex # <<>>
        THEN <<"-filter_complex",
               Join([k \in 1..Len(cmd.filter_complex) |-> ChainText(cmd.filter_complex[k])], ";")>>
        ELSE <<>>)
    \o Flag("-map", [k \in 1..Len(cmd.maps) |-> LabelText(cmd.maps[k])])
    \o cmd.codec
    \o <<cmd.output>>

----------------------------------------------------------------------------
(* Processes.  A process is none, running, exited (with rc) or killed.     *)

NoTool == [name |-> "none", st |-> "none", rc |-> 0, out |-> "", elapsed |-> 0, timeout |-> 0]
NoJob == [name |-> "none", st |-> "none", pc |-> "none", argv |-> <<>>, rc |-> 0,
          stdout |-> <<>>, stderr |-> <<>>]

\* json.dumps and json.loads: the text of a JSON value, and the value of a text
Dumps(value) == [text_of |-> value]
Loads(text) == text.text_of
NoCmd == [inputs |-> <<>>, vf |-> <<>>, filter_complex |-> <<>>, maps |-> <<>>,
          codec |-> <<>>, output |-> None]
NoLoc == [project_id |-> None, voiceover_path |-> None, clip_files |-> <<>>,
          cmd |-> NoCmd, tool_cmd |-> <<>>,
          videos |-> <<>>, outcomes |-> <<>>, next |-> 0]
NoResponse == [status |-> 0]
NoHandler == [phase |-> "none"]

\* subprocess.run(cmd, ...) once the process has been created
Running(name, timeout) ==
    [name |-> name, st |-> "running", rc |-> 0, out |-> "", elapsed |-> 0, timeout |-> timeout]

\* subprocess.run(..., timeout=t): on TimeoutExpired the child is killed and
\* waited for before the exception reaches the caller
LeftRunningOnTimeout(t) == t
KilledOnTimeout(t) == [t EXCEPT !.st = "killed"]

\* the CompletedProcess: return code and captured standard output
Exited(t, rc, out) == [t EXCEPT !.st = "exited", !.rc = rc, !.out = out]

Log(text) == [kind |-> "log", text |-> text]
JsonDoc(doc) == [kind |-> "json", doc |-> doc]

\* sys.exit(1) after print(json.dumps({...}), file=sys.stderr); an exit with the
\* result printed on standard output
ExitFailure(j, errdoc) ==
    [j EXCEPT !.st = "exited", !.pc = "done", !.rc = 1,
              !.stderr = @ \o <<JsonDoc(errdoc)>>]
ExitSuccess(j, result) ==
    [j EXCEPT !.st = "exited", !.pc = "done", !.rc = 0,
              !.stdout = @ \o <<JsonDoc(result)>>]

\* main() of each script, started without an argument (len(sys.argv) < 2):
\* print(json.dumps({"error": "No input data provided"})) and sys.exit(1);
\* SystemExit is no Exception, so main's except handler does not run
ExitNoInput(j) ==
    [j EXCEPT !.st = "exited", !.pc = "done", !.rc = 1,
              !.stdout = @ \o <<JsonDoc([error |-> "No input data provided"])>>]

----------------------------------------------------------------------------
(* assemble_video.py *)

\* project_data.get(key, default)
Get(d, key, default) == IF key \in DOMAIN d THEN d[key] ELSE default
\* {}
EmptyObject == [k \in {} |-> None]

AssembleError(msg) == [error |-> msg, status |-> "failed"]

RECURSIVE CollectClipsReversed(_, _, _)
CollectClipsReversed(f, pid, scenes) ==
    IF scenes = <<>> THEN <<>>
    ELSE LET clip_path == ClipPath(pid, scenes[1].sceneId)
         IN  CollectClipsReversed(f, pid, Tail(scenes))
             \o (IF Exists(f, clip_path) THEN <<clip_path>> ELSE <<>>)

\* the scenes whose clip file exists, in request order (lines 37-43)
RECURSIVE CollectClips(_, _, _)
CollectClips(f, pid, scenes) ==
    IF scenes = <<>> THEN <<>>
    ELSE LET clip_path == ClipPath(pid, scenes[1].sceneId)
         IN  (IF Exists(f, clip_path) THEN <<clip_path>> ELSE <<>>)
             \o CollectClips(f, pid, Tail(scenes))

RECURSIVE MissingClipWarnings(_, _, _)
MissingClipWarnings(f, pid, scenes) ==
    IF scenes = <<>> THEN <<>>
    ELSE (IF Exists(f, ClipPath(pid, scenes[1].sceneId)) THEN <<>>
          ELSE <<Log("Warning: Missing clip for scene " \o ToString(scenes[1].sceneId))>>)
         \o MissingClipWarnings(f, pid, Tail(scenes))

ValidationSameMessage(scenes, clip_files) ==
    IF scenes = <<>> \/ clip_files = <<>> THEN "No scenes to assemble" ELSE None

\* lines 28-29 and 45-46: the ValueError assemble_video raises, if any
ValidationError(scenes, clip_files) ==
    IF scenes = <<>> THEN "No scenes to assemble"
    ELSE IF clip_files = <<>> THEN "No video clips found to assemble"
    ELSE None

\* lines 55-58: strategy selection
BuildCommand(f, clip_files, voiceover_path, output_file, concat_file) ==
    IF Len(clip_files) = 1
    THEN build_single_clip_command(f, clip_files[1], voiceover_path, output_file)
    ELSE build_multi_clip_command(f, clip_files, voiceover_path, output_file, concat_file)

\* lines 78-87
AssemblyResult(f, l, metadata) ==
    LET output_file == OutputFile(l.project_id)
    IN  [ projectId |-> l.project_id,
          outputPath |-> output_file,
          duration |-> metadata.duration,
          resolution |-> metadata.resolution,
          fileSize |-> IF Exists(f, output_file) THEN f.bytes[l.project_id] ELSE 0,
          clipCount |-> Len(l.clip_files),
          hasVoiceover |-> l.voiceover_path # None,
          status |-> "completed" ]

DefaultMetadata == [duration |-> 0, resolution |-> "1920x1080"]

\* float(result.stdout.strip()), in milliseconds; raises ValueError on other text
ProbeOutputs == {"12.5\n", "0.04\n", "N/A\n", ""}
ParseFloatRaises(text) == text \notin {"12.5\n", "0.04\n"}
ParseFloat(text) == IF text = "12.5\n" THEN 12500 ELSE 40

\* what happens to the ffprobe invocation of get_video_metadata
ProbeNoLaunch == [kind |-> "nolaunch", rc |-> 0, text |-> ""]
ProbeTimedOut == [kind |-> "timeout", rc |-> 0, text |-> ""]
ProbeExited(rc, text) == [kind |-> "exit", rc |-> rc, text |-> text]

Raised == [raised |-> TRUE]

GetVideoMetadataNoExcept(video_path, outcome) ==
    IF outcome.kind # "exit" THEN Raised
    ELSE IF outcome.rc # 0 THEN [duration |-> 0, resolution |-> "1920x1080"]
    ELSE IF ParseFloatRaises(outcome.text) THEN Raised
    ELSE [duration |-> ParseFloat(outcome.text), resolution |-> "1920x1080"]

get_video_metadata(video_path, outcome) ==
    IF outcome.kind # "exit" THEN DefaultMetadata
    ELSE IF outcome.rc # 0 THEN [duration |-> 0, resolution |-> "1920x1080"]
    ELSE IF ParseFloatRaises(outcome.text) THEN DefaultMetadata
    ELSE [duration |-> ParseFloat(outcome.text), resolution |-> "1920x1080"]

\* lines 76-87 and 91-92, then main's print or its except
FinishAssembly(j, f, l, metadata) ==
    IF "raised" \in DOMAIN metadata
    THEN ExitFailure(j, AssembleError("Assembly failed: <probe error>"))
    ELSE ExitSuccess(j, AssemblyResult(f, l, metadata))

\* main() up to the point where assemble_video blocks in subprocess.run(cmd)
AssembleStart ==
    /\ job.name = "assemble_video.py" /\ job.st = "running" /\ job.pc = "start"
    /\ Len(job.argv) >= 1
    /\ LET project_data == Loads(job.argv[1])
           project_id == Get(project_data, "projectId", "unknown")
           scenes == Get(project_data, "scenes", <<>>)
           voiceover_path == Get(Get(project_data, "voiceover", EmptyObject), "voiceoverPath", None)
           project_dir == ProjectDir(project_id)
           output_file == OutputFile(project_id)
           concat_file == ConcatFile(project_id)
           clip_files == CollectClips(fs, project_id, scenes)
           fs1 == [fs EXCEPT !.dirs = @ \cup {project_dir}]
           fs2 == [fs1 EXCEPT !.files = @ \cup {concat_file},
                              !.concat[project_id] = clip_files]
           cmd == BuildCommand(fs2, clip_files, voiceover_path, output_file, concat_file)
           warned == [job EXCEPT !.stderr = @ \o MissingClipWarnings(fs, project_id, scenes)]
           logged(plan) ==
               [warned EXCEPT !.stderr = @ \o
                   << Log("Assembling video with " \o ToString(Len(clip_files))
                          \o " clips..."),
                      Log("Command: " \o Join(Argv(plan), " ")) >>]
           l1 == [NoLoc EXCEPT !.project_id = project_id,
                               !.voiceover_path = voiceover_path,
                               !.clip_files = clip_files]
           invalid == ValidationError(scenes, clip_files)
       IN  IF invalid = "No scenes to assemble"
           THEN /\ job' = ExitFailure(job, AssembleError(invalid))
                /\ loc' = [NoLoc EXCEPT !.project_id = project_id,
                                        !.voiceover_path = voiceover_path]
                /\ UNCHANGED <<fs, tool, launched>>
           ELSE IF invalid # None
           THEN /\ job' = ExitFailure(warned, AssembleError(invalid))
                /\ loc' = l1
                /\ fs' = fs1
                /\ UNCHANGED <<tool, launched>>
           ELSE \E canLaunch \in BOOLEAN, plan \in {cmd} :
                /\ fs' = fs2
                /\ IF canLaunch
                   THEN /\ job' = [logged(plan) EXCEPT !.pc = "encoding"]
                        /\ loc' = [l1 EXCEPT !.cmd = plan]
                        /\ tool' = Running("ffmpeg", EncoderTimeoutSecs)
                        /\ launched' = Append(launched, "ffmpeg")
                   ELSE /\ job' = ExitFailure(logged(plan),
                                     AssembleError("Assembly failed: [Errno 2] No such file or directory: 'ffmpeg'"))
                        /\ loc' = [l1 EXCEPT !.cmd = plan]
                        /\ UNCHANGED <<tool, launched>>
    /\ UNCHANGED <<phase, stage, body, response, served, parked>>

\* the output file ffmpeg leaves behind: complete on exit 0, otherwise absent
\* or partial (bytes: 0 nothing, 1 partial, 2 complete)
WriteOutput(f, pid, bytes) ==
    IF bytes = 0 THEN f
    ELSE [f EXCEPT !.files = @ \cup {OutputFile(pid)}, !.bytes[pid] = bytes]

\* time passes while the stage job is blocked on a tool that has a timeout
ToolTick ==
    /\ tool.st = "running" /\ tool.timeout > 0 /\ tool.elapsed <= tool.timeout
    /\ tool' = [tool EXCEPT !.elapsed = @ + TickSecs]
    /\ UNCHANGED <<fs, phase, stage, body, response, job, loc, launched, served, parked>>

\* lines 72-76 and 91-92: ffmpeg exits within the timeout
EncoderExit ==
    /\ job.name = "assemble_video.py" /\ job.pc = "encoding"
    /\ tool.name = "ffmpeg" /\ tool.st = "running" /\ tool.elapsed <= tool.timeout
    /\ \E rc \in {0, 1}, partial \in {0, 1}, canProbe \in BOOLEAN :
        /\ rc = 0 => partial = 1
        /\ rc # 0 => canProbe
        /\ fs' = WriteOutput(fs, loc.project_id, IF rc = 0 THEN 2 ELSE partial)
        /\ IF rc # 0
           THEN /\ job' = ExitFailure(job,
                              AssembleError("Assembly failed: FFmpeg failed: <stderr of ffmpeg>"))
                /\ tool' = Exited(tool, rc, "")
                /\ UNCHANGED launched
           ELSE IF canProbe
           THEN /\ job' = [job EXCEPT !.pc = "probing"]
                /\ tool' = Running("ffprobe", ProbeTimeoutSecs)
                /\ launched' = Append(launched, "ffprobe")
           ELSE \* ffprobe cannot be started: get_video_metadata's except
                /\ job' = FinishAssembly(job, fs', loc,
                                         get_video_metadata(OutputFile(loc.project_id),
                                                            ProbeNoLaunch))
                /\ tool' = Exited(tool, rc, "")
                /\ UNCHANGED launched
    /\ UNCHANGED <<phase, stage, body, response, loc, served, parked>>

\* lines 89-90: subprocess.run raises TimeoutExpired
EncoderTimeout ==
    /\ job.name = "assemble_video.py" /\ job.pc = "encoding"
    /\ tool.name = "ffmpeg" /\ tool.st = "running" /\ tool.elapsed > tool.timeout
    /\ \E partial \in {0, 1} :
        fs' = WriteOutput(fs, loc.project_id, partial)
    /\ tool' = KilledOnTimeout(tool)
    /\ job' = ExitFailure(job, AssembleError("Video assembly timed out (>10 minutes)"))
    /\ UNCHANGED <<phase, stage, body, response, loc, launched, served, parked>>

\* get_video_metadata, lines 199-201, then lines 78-87 and main's print
ProbeExit ==
    /\ job.name = "assemble_video.py" /\ job.pc = "probing"
    /\ tool.name = "ffprobe" /\ tool.st = "running" /\ tool.elapsed <= tool.timeout
    /\ \E rc \in {0, 1}, text \in ProbeOutputs :
        /\ rc # 0 => text = ""
        /\ tool' = Exited(tool, rc, text)
        /\ job' = FinishAssembly(job, fs, loc,
                                 get_video_metadata(OutputFile(loc.project_id),
                                                    ProbeExited(rc, text)))
    /\ UNCHANGED <<fs, phase, stage, body, response, loc, launched, served, parked>>

\* get_video_metadata, lines 202-203: the probe's TimeoutExpired is swallowed
ProbeTimeout ==
    /\ job.name = "assemble_video.py" /\ job.pc = "probing"
    /\ tool.name = "ffprobe" /\ tool.st = "running" /\ tool.elapsed > tool.timeout
    /\ tool' = KilledOnTimeout(tool)
    /\ job' = FinishAssembly(job, fs, loc,
                             get_video_metadata(OutputFile(loc.project_id), ProbeTimedOut))
    /\ UNCHANGED <<fs, phase, stage, body, response, loc, launched, served, parked>>

----------------------------------------------------------------------------
(* generate_voiceover.py *)

\* text[:n]
Prefix(text, n) == IF Len(text) <= n THEN text ELSE SubSeq(text, 1, n)

\* " ".join([scene.get('sceneText', '') for scene in scenes])
FullText(scenes) == Join([k \in 1..Len(scenes) |-> Get(scenes[k], "sceneText", "")], " ")

TtsCommand(full_text, voiceover_path) ==
    << "tts", "--text", full_text, "--out_path", voiceover_path,
       "--model_name", "tts_models/en/ljspeech/vits" >>

SilenceCommand(voiceover_path) ==
    << "ffmpeg", "-y", "-f", "lavfi", "-i", "anullsrc=r=44100:cl=mono",
       "-t", "10", voiceover_path >>

\* lines 63-68
VoiceoverResult(voiceover_path, status, project_id) ==
    [ voiceoverPath |-> voiceover_path,
      duration |-> 0,
      status |-> status,
      projectId |-> project_id ]

\* lines 47-61: the fallback after tts could not be run or failed; the silence
\* generator is started, or cannot be started and the bare except gives
\* failed_all; cmd is the silence command (lines 51-56) either way
StartFallback(j, l, canLaunch) ==
    LET logged == [j EXCEPT !.stderr = @ \o
                     <<Log("Coqui TTS not found or failed. Creating silence mockup.")>>]
    IN  IF canLaunch
        THEN [ job |-> [logged EXCEPT !.pc = "silence"],
               loc |-> [l EXCEPT !.tool_cmd = SilenceCommand(l.voiceover_path)],
               tool |-> Running("ffmpeg", 0),
               started |-> <<"ffmpeg">> ]
        ELSE [ job |-> ExitSuccess(logged, VoiceoverResult(None, "failed_all", l.project_id)),
               loc |-> [l EXCEPT !.tool_cmd = SilenceCommand(l.voiceover_path),
                                 !.voiceover_path = None],
               tool |-> NoTool,
               started |-> <<>> ]

\* main() up to the point where generate_voiceover blocks in subprocess.run
VoiceoverStart ==
    /\ job.name = "generate_voiceover.py" /\ job.st = "running" /\ job.pc = "start"
    /\ Len(job.argv) >= 1
    /\ LET project_data == Loads(job.argv[1])
           project_id == Get(project_data, "projectId", "unknown")
           scenes == Get(project_data, "scenes", <<>>)
           project_dir == ProjectDir(project_id)
           voiceover_path == VoiceoverFile(project_id)
           full_text == FullText(scenes)
           logged == [job EXCEPT !.stderr = @ \o
                        <<Log("Generating voiceover for: " \o Prefix(full_text, 50)
                              \o "...")>>]
           l1 == [NoLoc EXCEPT !.project_id = project_id,
                               !.voiceover_path = voiceover_path,
                               !.tool_cmd = TtsCommand(full_text, voiceover_path)]
       IN  IF scenes = <<>>
           THEN /\ job' = ExitFailure(job, [error |-> "No scenes provided"])
                /\ loc' = [NoLoc EXCEPT !.project_id = project_id]
                /\ UNCHANGED <<fs, tool, launched>>
           ELSE /\ fs' = [fs EXCEPT !.dirs = @ \cup {project_dir}]
                /\ \E ttsInstalled \in BOOLEAN, canFallback \in BOOLEAN :
                     /\ ttsInstalled => canFallback
                     /\ IF ttsInstalled
                        THEN /\ job' = [logged EXCEPT !.pc = "tts"]
                             /\ loc' = l1
                             /\ tool' = Running("tts", 0)
                             /\ launched' = Append(launched, "tts")
                        ELSE LET fb == StartFallback(logged, l1, canFallback)
                             IN  /\ job' = fb.job
                                 /\ loc' = fb.loc
                                 /\ tool' = fb.tool
                                 /\ launched' = launched \o fb.started
    /\ UNCHANGED <<phase, stage, body, response, served, parked>>

\* lines 43-48: tts exits; check=True turns a non-zero exit into the fallback
TtsExit ==
    /\ job.name = "generate_voiceover.py" /\ job.pc = "tts"
    /\ tool.name = "tts" /\ tool.st = "running"
    /\ \E rc \in {0, 1}, canFallback \in BOOLEAN :
        /\ rc = 0 => canFallback
        /\ IF rc = 0
           THEN /\ fs' = [fs EXCEPT !.files = @ \cup {loc.voiceover_path}]
                /\ job' = ExitSuccess(job, VoiceoverResult(loc.voiceover_path, "generated",
                                                           loc.project_id))
                /\ tool' = Exited(tool, rc, "")
                /\ UNCHANGED <<loc, launched>>
           ELSE LET fb == StartFallback(job, loc, canFallback)
                IN  /\ job' = fb.job
                    /\ loc' = fb.loc
                    /\ tool' = IF canFallback THEN fb.tool ELSE Exited(tool, rc, "")
                    /\ launched' = launched \o fb.started
                    /\ UNCHANGED fs
    /\ UNCHANGED <<phase, stage, body, response, served, parked>>

\* lines 57-68: the silence generator exits
SilenceExit ==
    /\ job.name = "generate_voiceover.py" /\ job.pc = "silence"
    /\ tool.name = "ffmpeg" /\ tool.st = "running"
    /\ \E rc \in {0, 1} :
        /\ tool' = Exited(tool, rc, "")
        /\ IF rc = 0
           THEN /\ fs' = [fs EXCEPT !.files = @ \cup {loc.voiceover_path}]
                /\ job' = ExitSuccess(job, VoiceoverResult(loc.voiceover_path, "mock_silence",
                                                           loc.project_id))
                /\ UNCHANGED loc
           ELSE /\ job' = ExitSuccess(job, VoiceoverResult(None, "failed_all", loc.project_id))
                /\ loc' = [loc EXCEPT !.voiceover_path = None]
                /\ UNCHANGED fs
    /\ UNCHANGED <<phase, stage, body, response, launched, served, parked>>

----------------------------------------------------------------------------
(* clip_ranker.py *)

\* scores are kept in hundredths, similarities in thousandths
Similarities == {-4321, 5, 2675, 27458, 123456}
ItemOutcomes ==
    {[kind |-> "download_failed", similarity |-> 0], [kind |-> "exception", similarity |-> 0]}
    \cup {[kind |-> "scored", similarity |-> x] : x \in Similarities}

IsObject(v) == "scalar" \notin DOMAIN v

\* video['relevanceScore'] = score
SetScore(video, score) ==
    [k \in DOMAIN video \cup {"relevanceScore"} |->
        IF k = "relevanceScore" THEN score ELSE video[k]]

\* the number of binary digits of a natural number
BitLength(i) == CHOOSE n \in 0..30 : i < 2^n /\ (n = 0 \/ i >= 2^(n - 1))

\* The Python float of x/1000 (x a natural number of thousandths) is the
\* binary double nearest to it: 53 significant binary digits, the rest rounded
\* to nearest, ties to even.  -1: the double lies below x/1000, 0: it is
\* x/1000, 1: it lies above.
DoubleVsDecimal(x) ==
    LET whole == x \div 1000
        frac == x % 1000
        \* what is left of the fraction after k binary digits
        rem[k \in 0..70] == IF k = 0 THEN frac ELSE (2 * rem[k - 1]) % 1000
        \* the position of the first 1 among the binary digits of the fraction
        first == CHOOSE z \in 1..10 :
                     /\ 2 * rem[z - 1] >= 1000
                     /\ \A y \in 1..(z - 1) : 2 * rem[y - 1] < 1000
        digits == IF whole > 0 THEN 53 - BitLength(whole) ELSE first + 52
        left == rem[digits]
        last == (2 * rem[digits - 1]) \div 1000
    IN  IF frac = 0 \/ left = 0 THEN 0
        ELSE IF left < 500 THEN -1
        ELSE IF left > 500 THEN 1
        ELSE IF last = 0 THEN -1 ELSE 1

\* round(x, 2) of the float of a non-negative x given in thousandths, in
\* hundredths: the float is rounded by its exact value, so a decimal tie goes
\* the way the float lies, and to even only when the float is the tie itself
Round2(x) ==
    LET q == x \div 10
        r == x % 10
    IN  IF r < 5 THEN q
        ELSE IF r > 5 THEN q + 1
        ELSE IF DoubleVsDecimal(x) < 0 THEN q
        ELSE IF DoubleVsDecimal(x) > 0 THEN q + 1
        ELSE IF q % 2 = 0 THEN q ELSE q + 1

\* line 82: round(max(0, min(100, similarity)), 2)
ClampedScore(similarity) == Round2(Max(0, Min(100000, similarity)))

ReachesScorer(video) ==
    IsObject(video) /\ Get(video, "sceneText", "") # "" /\ Get(video, "thumbnailUrl", "") # ""

\* lines 52-88: one iteration of the scoring loop
ScoreOne(video, outcome) ==
    IF Get(video, "sceneText", "") = "" \/ Get(video, "thumbnailUrl", "") = ""
    THEN SetScore(video, 0)
    ELSE IF outcome.kind = "download_failed" THEN SetScore(video, 0)
    ELSE IF outcome.kind = "exception" THEN SetScore(video, 0)
    ELSE SetScore(video, ClampedScore(outcome.similarity))

RankDropsFailedItems(videos_data, modelLoads, outcomes) ==
    IF \E k \in 1..Len(videos_data) : ~IsObject(videos_data[k])
    THEN [raised |-> TRUE, value |-> <<>>]
    ELSE IF ~modelLoads
    THEN [raised |-> FALSE,
          value |-> [k \in 1..Len(videos_data) |->
                        SetScore(videos_data[k], (100 - (k - 1) * 5) * 100)]]
    ELSE [raised |-> FALSE,
          value |-> SelectSeq([k \in 1..Len(videos_data) |->
                                  ScoreOne(videos_data[k], outcomes[k])],
                              LAMBDA v : v.relevanceScore > 0)]

\* lines 26-90; an item that is no object makes the loop's except handler raise
rank_videos(videos_data, modelLoads, outcomes) ==
    IF \E k \in 1..Len(videos_data) : ~IsObject(videos_data[k])
    THEN [raised |-> TRUE, value |-> <<>>]
    ELSE IF ~modelLoads
    THEN [raised |-> FALSE,
          value |-> [k \in 1..Len(videos_data) |->
                        SetScore(videos_data[k], (100 - (k - 1) * 5) * 100)]]
    ELSE [raised |-> FALSE,
          value |-> [k \in 1..Len(videos_data) |->
                        ScoreOne(videos_data[k], outcomes[k])]]

JsonArray(items) == [type |-> "array", items |-> items]
JsonObject(obj) == [type |-> "object", obj |-> obj]

\* lines 102-106: a lone object becomes a one-element list
Normalize(input_data) ==
    IF input_data.type = "object" THEN <<input_data.obj>> ELSE input_data.items

\* an item the loop has not brought to the scorer
NotReached == [kind |-> "exception", similarity |-> 0]

\* the first item from k on at which the loop does more than assign 0: an item
\* that is no object (video.get raises, and raises again in the except
\* handler's print) or an item whose thumbnail is fetched; Len + 1 if none
NextStop(videos, k) ==
    LET stops == {i \in k..Len(videos) : ~IsObject(videos[i]) \/ ReachesScorer(videos[i])}
    IN  IF stops = {} THEN Len(videos) + 1
        ELSE CHOOSE i \in stops : \A m \in stops : i <= m

\* str(e) of the exception an item that is a string raises: video.get in the
\* loop, video['relevanceScore'] = ... in the model-load fallback
RankErrorText(modelLoads) ==
    IF modelLoads THEN "'str' object has no attribute 'get'"
    ELSE "'str' object does not support item assignment"

\* main: print(json.dumps(ranked_videos)), or the except handler
RankFinish(j, l, modelLoads) ==
    LET ranked == rank_videos(l.videos, modelLoads, l.outcomes)
    IN  IF ranked.raised
        THEN ExitFailure(j, [error |-> RankErrorText(modelLoads)])
        ELSE ExitSuccess(j, JsonArray(ranked.value))

\* the loop of lines 51-88 from item k on, as far as the next thumbnail
\* download, the raise of an item that is no object, or its end
RankLoop(j, l, k) ==
    LET stop == NextStop(l.videos, k)
    IN  IF stop <= Len(l.videos) /\ IsObject(l.videos[stop])
        THEN [job |-> [j EXCEPT !.pc = "downloading"], loc |-> [l EXCEPT !.next = stop]]
        ELSE [job |-> RankFinish(j, l, TRUE), loc |-> [l EXCEPT !.next = stop]]

\* lines 23 and 86: what the loop prints for an item whose download or scoring failed
OutcomeLog(video, outcome) ==
    IF outcome.kind = "download_failed"
    THEN <<Log("Error downloading " \o video.thumbnailUrl \o ": download failed")>>
    ELSE IF outcome.kind = "exception"
    THEN <<Log("Error processing video "
               \o (IF "videoId" \in DOMAIN video THEN ToString(video.videoId) ELSE "unknown")
               \o ": scoring failed")>>
    ELSE <<>>

\* main() and rank_videos up to clip.load (lines 94-106, 37-41): the input is
\* parsed and normalized, the device is printed, then the job waits for the model
RankStart ==
    /\ job.name = "clip_ranker.py" /\ job.st = "running" /\ job.pc = "start"
    /\ Len(job.argv) >= 1
    /\ \E device \in {"cuda", "cpu"} :
        job' = [job EXCEPT !.pc = "loading",
                           !.stderr = @ \o <<Log("Using device: " \o device)>>]
    /\ LET videos == Normalize(Loads(job.argv[1]))
       IN  loc' = [NoLoc EXCEPT !.videos = videos,
                                !.outcomes = [k \in 1..Len(videos) |-> NotReached]]
    /\ UNCHANGED <<fs, phase, stage, body, response, tool, launched, served, parked>>

\* lines 41-47: clip.load returns the model, or raises and the default scores
\* are assigned by position
ModelLoaded ==
    /\ job.name = "clip_ranker.py" /\ job.st = "running" /\ job.pc = "loading"
    /\ \E modelLoads \in BOOLEAN :
        IF modelLoads
        THEN LET run == RankLoop(job, loc, 1)
             IN  job' = run.job /\ loc' = run.loc
        ELSE /\ job' = RankFinish(
                          [job EXCEPT !.stderr = @ \o
                              <<Log("Error loading CLIP model: model cannot be loaded")>>],
                          loc, FALSE)
             /\ UNCHANGED loc
    /\ UNCHANGED <<fs, phase, stage, body, response, tool, launched, served, parked>>

\* lines 60-88: requests.get of download_image returns or fails, the item is
\* scored (or the scoring raises), and the loop goes on
ThumbnailDone ==
    /\ job.name = "clip_ranker.py" /\ job.st = "running" /\ job.pc = "downloading"
    /\ \E outcome \in ItemOutcomes :
        LET k == loc.next
            logged == [job EXCEPT !.stderr = @ \o OutcomeLog(loc.videos[k], outcome)]
            scored == [loc EXCEPT !.outcomes[k] = outcome]
            run == RankLoop(logged, scored, k + 1)
        IN  job' = run.job /\ loc' = run.loc
    /\ UNCHANGED <<fs, phase, stage, body, response, tool, launched, served, parked>>

----------------------------------------------------------------------------
(* docuforge_bridge.py: the dispatcher *)

Stages == {"rank", "voiceover", "assemble"}

ScriptOf(st) ==
    CASE st = "rank" -> "clip_ranker.py"
      [] st = "voiceover" -> "generate_voiceover.py"
      [] st = "assemble" -> "assemble_video.py"

\* a request body that is no JSON document
BadBody == [ok |-> FALSE]
Body(json) == [ok |-> TRUE, json |-> json]

\* scene lists: a sceneId is unique within a project
Scenes ==
    { [k \in DOMAIN ids |-> [sceneId |-> ids[k]]] :
        ids \in { q \in SeqsUpTo(SceneIds, Cardinality(SceneIds)) :
                    \A a, b \in DOMAIN q : a # b => q[a] # q[b] } }

VoiceoverArtifacts(pid) ==
    { VoiceoverResult(None, "failed_all", pid),
      VoiceoverResult(VoiceoverFile(pid), "generated", pid) }

AssembleBodies ==
    { Body([projectId |-> pid, scenes |-> sc]) : pid \in ProjectIds, sc \in Scenes }
    \cup
    { Body([projectId |-> pid, scenes |-> sc, voiceover |-> vo]) :
        pid \in ProjectIds, sc \in Scenes, vo \in UNION {VoiceoverArtifacts(p) : p \in ProjectIds} }

VoiceoverBodies ==
    { Body([projectId |-> pid, scenes |-> sc]) :
        pid \in ProjectIds,
        sc \in { <<>>,
                 <<[sceneId |-> 1, sceneText |-> "Rivers shape the land."]>>,
                 <<[sceneId |-> 1, sceneText |-> "Rivers shape the land."], [sceneId |-> 2]>>,
                 <<[sceneId |-> 1,
                    sceneText |-> "The quick brown fox jumps over the lazy dog near the river bank at dawn."]>> } }

Videos ==
    { [videoId |-> i, sceneText |-> "a river at dawn", thumbnailUrl |-> "http://cdn/t.jpg"] :
        i \in VideoIds }
    \cup { [videoId |-> 1, thumbnailUrl |-> "http://cdn/t.jpg"],
           [videoId |-> 2, sceneText |-> "a river at dawn", thumbnailUrl |-> ""],
           [scalar |-> "a river at dawn"] }

\* a long candidate list: the same thumbnail, without scene text, for every entry
LongList == [k \in 1..LongListLen |-> [videoId |-> k, thumbnailUrl |-> "http://cdn/t.jpg"]]

RankBodies ==
    { Body(JsonObject(v)) : v \in {w \in Videos : IsObject(w)} }
    \cup { Body(JsonArray(vs)) : vs \in SeqsUpTo(Videos, MaxVideos) }
    \cup { Body(JsonArray(LongList)) }

Bodies(st) ==
    {BadBody} \cup
    ( CASE st = "rank" -> RankBodies
        [] st = "voiceover" -> VoiceoverBodies
        [] st = "assemble" -> AssembleBodies )

\* a request arrives at one of the three endpoints
Receive ==
    /\ phase = "Idle"
    /\ served < MaxRequests
    /\ \E st \in Stages :
        \E b \in Bodies(st) :
            /\ stage' = st
            /\ body' = b
    /\ phase' = "Received"
    /\ served' = served + 1
    /\ UNCHANGED <<fs, response, job, loc, tool, launched, parked>>

ErrorResponse(doc) == [status |-> 500, body |-> doc]
OkResponse(doc) == [status |-> 200, body |-> doc]

\* data = request.json
Decode ==
    /\ phase = "Received"
    /\ IF body.ok
       THEN /\ phase' = "Decoded"
            /\ UNCHANGED response
       ELSE /\ phase' = "Failed"
            /\ response' = ErrorResponse([error |-> "400 Bad Request"])
    /\ UNCHANGED <<fs, stage, body, job, loc, tool, launched, served, parked>>

\* subprocess.run([PYTHON_EXEC, script_path, input_json], ...) starts the stage job
Dispatch ==
    /\ phase = "Decoded"
    /\ \E canLaunch \in BOOLEAN :
        IF canLaunch
        THEN /\ phase' = "Dispatched"
             /\ job' = [NoJob EXCEPT !.name = ScriptOf(stage), !.st = "running",
                                     !.pc = "start", !.argv = <<Dumps(body.json)>>]
             /\ launched' = Append(launched, "python3 " \o ScriptOf(stage))
             /\ UNCHANGED response
        ELSE /\ phase' = "Failed"
             /\ response' = ErrorResponse(
                    [error |-> "[Errno 2] No such file or directory: 'python3'"])
             /\ UNCHANGED <<job, launched>>
    /\ UNCHANGED <<fs, stage, body, loc, tool, served, parked>>

\* json.loads(result.stdout)
StdoutParses(j) == Len(j.stdout) = 1 /\ j.stdout[1].kind = "json"

NoReturnCodeCheck(st, j) ==
    IF StdoutParses(j) THEN OkResponse(j.stdout[1].doc)
    ELSE IF st = "rank"
    THEN ErrorResponse([error |-> "Invalid JSON output from script", raw |-> j.stdout])
    ELSE ErrorResponse([error |-> "Expecting value: line 1 column 1 (char 0)"])

\* the response each endpoint shapes from the finished stage job
StageResponse(st, j) ==
    IF j.rc # 0 THEN ErrorResponse([error |-> "Script failed", stderr |-> j.stderr])
    ELSE IF StdoutParses(j) THEN OkResponse(j.stdout[1].doc)
    ELSE IF st = "rank"
    THEN ErrorResponse([error |-> "Invalid JSON output from script", raw |-> j.stdout])
    ELSE ErrorResponse([error |-> "Expecting value: line 1 column 1 (char 0)"])

\* the stage job has exited and subprocess.run returns
Return ==
    /\ phase = "Dispatched"
    /\ job.st = "exited"
    /\ response' = StageResponse(stage, job)
    /\ phase' = IF response'.status = 200 THEN "Completed" ELSE "Failed"
    /\ UNCHANGED <<fs, stage, body, job, loc, tool, launched, served, parked>>

\* the response has been sent; the handler's locals and the finished child
\* processes are gone, the filesystem stays
Finish ==
    /\ phase \in {"Completed", "Failed"}
    /\ phase' = "Idle"
    /\ response' = NoResponse
    /\ job' = NoJob
    /\ loc' = NoLoc
    /\ tool' = NoTool
    /\ launched' = <<>>
    /\ stage' = "rank"
    /\ body' = BadBody
    /\ UNCHANGED <<fs, served, parked>>

----------------------------------------------------------------------------
(* The system *)

ClipSets == SUBSET {ClipPath(pid, sid) : pid \in ProjectIds, sid \in SceneIds}

Init ==
    /\ \E clips \in ClipSets, hasLut \in BOOLEAN :
        fs = [ files |-> clips \cup (IF hasLut THEN {LutPath} ELSE {}),
               dirs |-> {ProjectDir(pid) : pid \in {p \in ProjectIds :
                            \E sid \in SceneIds : ClipPath(p, sid) \in clips}},
               concat |-> [pid \in ProjectIds |-> <<>>],
               bytes |-> [pid \in ProjectIds |-> 0] ]
    /\ phase = "Idle"
    /\ stage = "rank"
    /\ body = BadBody
    /\ response = NoResponse
    /\ job = NoJob
    /\ loc = NoLoc
    /\ tool = NoTool
    /\ launched = <<>>
    /\ served = 0
    /\ parked = NoHandler

Next ==
    \/ Receive
    \/ Decode
    \/ Dispatch
    \/ RankStart
    \/ ModelLoaded
    \/ ThumbnailDone
    \/ VoiceoverStart
    \/ TtsExit
    \/ SilenceExit
    \/ AssembleStart
    \/ ToolTick
    \/ EncoderExit
    \/ EncoderTimeout
    \/ ProbeExit
    \/ ProbeTimeout
    \/ Return
    \/ Finish

Spec == Init /\ [][Next]_vars

\* The steps the program itself takes: the handler and the stage job run when
\* they can, the clock of subprocess.run(timeout=...) advances and its expiry
\* is acted on.  An external tool's exit (EncoderExit, ProbeExit, TtsExit,
\* SilenceExit) is the tool's doing: nothing in the program makes it happen.
\* Neither does anything bound the return of clip.load (ModelLoaded), which
\* has no timeout, or of the thumbnail download (ThumbnailDone), whose
\* timeout=10 limits each wait for the server and not the download.
ProgramStep ==
    \/ Decode
    \/ Dispatch
    \/ RankStart
    \/ VoiceoverStart
    \/ AssembleStart
    \/ ToolTick
    \/ EncoderTimeout
    \/ ProbeTimeout
    \/ Return
    \/ Finish

FairSpec == Init /\ [][Next]_vars /\ WF_vars(ProgramStep)

----------------------------------------------------------------------------
(* Two requests in flight at once.  app.run serves each request in a       *)
(* thread of its own; each handler has its own locals, stage job and tool, *)
(* and the filesystem is the one thing they share.  The variables phase .. *)
(* launched are the handler that takes the next step, parked is the other. *)

ConcProjectIds == {"p1", "p2"}

Handler ==
    [ phase |-> phase, stage |-> stage, body |-> body, response |-> response,
      job |-> job, loc |-> loc, tool |-> tool, launched |-> launched ]

NewRequest(st, b) ==
    [ phase |-> "Received", stage |-> st, body |-> b, response |-> NoResponse,
      job |-> NoJob, loc |-> NoLoc, tool |-> NoTool, launched |-> <<>> ]

\* the scheduler runs the other handler (or its stage job, or its tool)
Switch ==
    /\ parked # NoHandler
    /\ parked' = Handler
    /\ phase' = parked.phase
    /\ stage' = parked.stage
    /\ body' = parked.body
    /\ response' = parked.response
    /\ job' = parked.job
    /\ loc' = parked.loc
    /\ tool' = parked.tool
    /\ launched' = parked.launched
    /\ UNCHANGED <<fs, served>>

\* a voiceover request, or an assemble request with or without the voiceover
\* artifact of its own project
ConcRequests(pid) ==
    { NewRequest("voiceover",
          Body([projectId |-> pid,
                scenes |-> <<[sceneId |-> 1, sceneText |-> "Rivers shape the land."]>>])),
      NewRequest("assemble",
          Body([projectId |-> pid, scenes |-> <<[sceneId |-> 2], [sceneId |-> 1]>>])),
      NewRequest("assemble",
          Body([projectId |-> pid, scenes |-> <<[sceneId |-> 2], [sceneId |-> 1]>>,
                voiceover |-> VoiceoverResult(VoiceoverFile(pid), "generated", pid)])) }

ConcClipSets == SUBSET {ClipPath(pid, sid) : pid \in ConcProjectIds, sid \in {1, 2}}

\* a request for p1 and a request for p2 have both been received
ConcInit ==
    /\ \E clips \in ConcClipSets :
        fs = [ files |-> clips,
               dirs |-> {ProjectDir(pid) : pid \in {p \in ConcProjectIds :
                            \E sid \in SceneIds : ClipPath(p, sid) \in clips}},
               concat |-> [pid \in ConcProjectIds |-> <<>>],
               bytes |-> [pid \in ConcProjectIds |-> 0] ]
    /\ \E mine \in ConcRequests("p1"), other \in ConcRequests("p2") :
        /\ phase = mine.phase
        /\ stage = mine.stage
        /\ body = mine.body
        /\ parked = other
    /\ response = NoResponse
    /\ job = NoJob
    /\ loc = NoLoc
    /\ tool = NoTool
    /\ launched = <<>>
    /\ served = 2

ConcNext ==
    \/ Decode
    \/ Dispatch
    \/ VoiceoverStart
    \/ TtsExit
    \/ SilenceExit
    \/ AssembleStart
    \/ ToolTick
    \/ EncoderExit
    \/ EncoderTimeout
    \/ ProbeExit
    \/ ProbeTimeout
    \/ Return
    \/ Switch

ConcSpec == ConcInit /\ [][ConcNext]_vars

----------------------------------------------------------------------------
(* The stage scripts as command-line entry points: a script is started     *)
(* directly, with the JSON document as its argument or with no argument.   *)

Scripts == {ScriptOf(st) : st \in Stages}

\* sys.argv[1:] of a script started by hand
CliArgs(script) ==
    {<<>>} \cup
    UNION { {<<Dumps(b.json)>> : b \in Bodies(st) \ {BadBody}} :
              st \in {x \in Stages : ScriptOf(x) = script} }

NoInputExit ==
    /\ job.st = "running" /\ job.pc = "start"
    /\ Len(job.argv) < 1
    /\ job' = ExitNoInput(job)
    /\ UNCHANGED <<fs, phase, stage, body, response, loc, tool, launched, served, parked>>

CliInit ==
    /\ \E clips \in ClipSets, hasLut \in BOOLEAN :
        fs = [ files |-> clips \cup (IF hasLut THEN {LutPath} ELSE {}),
               dirs |-> {ProjectDir(pid) : pid \in {p \in ProjectIds :
                            \E sid \in SceneIds : ClipPath(p, sid) \in clips}},
               concat |-> [pid \in ProjectIds |-> <<>>],
               bytes |-> [pid \in ProjectIds |-> 0] ]
    /\ \E script \in Scripts :
        \E args \in CliArgs(script) :
        job = [NoJob EXCEPT !.name = script, !.st = "running", !.pc = "start",
                            !.argv = args]
    /\ phase = "Idle"
    /\ stage = "rank"
    /\ body = BadBody
    /\ response = NoResponse
    /\ loc = NoLoc
    /\ tool = NoTool
    /\ launched = <<>>
    /\ served = 0
    /\ parked = NoHandler

CliNext ==
    \/ NoInputExit
    \/ RankStart
    \/ ModelLoaded
    \/ ThumbnailDone
    \/ VoiceoverStart
    \/ TtsExit
    \/ SilenceExit
    \/ AssembleStart
    \/ ToolTick
    \/ EncoderExit
    \/ EncoderTimeout
    \/ ProbeExit
    \/ ProbeTimeout

CliSpec == CliInit /\ [][CliNext]_vars

----------------------------------------------------------------------------
(* Properties *)

Range(q) == {q[k] : k \in DOMAIN q}

\* the request being handled is an assemble request with a JSON body
IsAssemble == phase # "Idle" /\ stage = "assemble" /\ body.ok
ReqProject == Get(body.json, "projectId", "unknown")
ReqScenes == Get(body.json, "scenes", <<>>)

\* the clip files of the requested scenes that exist, in request order
UsableClips ==
    LET paths == [k \in DOMAIN ReqScenes |-> ClipPath(ReqProject, ReqScenes[k].sceneId)]
    IN  SelectSeq(paths, LAMBDA path : path \in fs.files)

AllClipPaths == {ClipPath(pid, sid) : pid \in ProjectIds, sid \in SceneIds}
ClipInputs(cmd) == SelectSeq(cmd.inputs, LAMBDA path : path \in AllClipPaths)
OtherInputs(cmd) == SelectSeq(cmd.inputs, LAMBDA path : path \notin AllClipPaths)

\* the assemble job has got past its start and has built a plan
PlanBuilt == IsAssemble /\ job.name = "assemble_video.py" /\ loc.cmd # NoCmd

\* every input pad [i:v] or [i:a] the filter graph reads
PadRefs(cmd) ==
    UNION { {pad \in Range(cmd.filter_complex[k].ins) : pad.kind = "in"} :
              k \in DOMAIN cmd.filter_complex }

ChainsInto(cmd, label) ==
    {k \in DOMAIN cmd.filter_complex : cmd.filter_complex[k].outs = <<label>>}

JobExited == job.st = "exited"
LastStderr == job.stderr[Len(job.stderr)]
JobError == IF job.stderr # <<>> /\ LastStderr.kind = "json" THEN LastStderr.doc.error ELSE None
JobResult == job.stdout[1].doc

\* C1: in every multi-clip plan for N usable clips, input i is the i-th usable
\* clip in request order, the video concatenation lists [v0]..[vN-1] (each the
\* scaled stream of input i), the audio concatenation lists [0:a]..[N-1:a], an
\* included voiceover is input N and is read as [N:a], and the filter graph reads
\* no input index that was not declared.
C1_MultiClipStreamIndices ==
    (PlanBuilt /\ Len(UsableClips) >= 2) =>
        LET cmd == loc.cmd
            N == Len(UsableClips)
            fc == cmd.filter_complex
        IN  /\ Len(cmd.inputs) \in {N, N + 1}
            /\ \A i \in 1..N : cmd.inputs[i] = UsableClips[i]
            /\ Cardinality(ChainsInto(cmd, Label("vout"))) = 1
            /\ \A k \in ChainsInto(cmd, Label("vout")) :
                  /\ fc[k].filters = <<ConcatFilter(N, 1, 0)>>
                  /\ fc[k].ins = [i \in 1..N |-> IdxLabel("v", i - 1)]
            /\ \A i \in 1..N :
                  /\ Cardinality(ChainsInto(cmd, IdxLabel("v", i - 1))) = 1
                  /\ \A k \in ChainsInto(cmd, IdxLabel("v", i - 1)) :
                        fc[k].ins = <<InPad(i - 1, "v")>>
            /\ \E k \in DOMAIN fc :
                  /\ fc[k].filters = <<ConcatFilter(N, 0, 1)>>
                  /\ fc[k].ins = [i \in 1..N |-> InPad(i - 1, "a")]
            /\ Len(cmd.inputs) = N + 1 =>
                  /\ cmd.inputs[N + 1] = loc.voiceover_path
                  /\ InPad(N, "a") \in PadRefs(cmd)
            /\ \A pad \in PadRefs(cmd) : pad.idx >= 0 /\ pad.idx < Len(cmd.inputs)

\* three usable clips out of request order, with the voiceover as fourth input
C1_Witness ==
    /\ PlanBuilt
    /\ Len(UsableClips) = 3
    /\ ReqScenes[1].sceneId = 3
    /\ Len(loc.cmd.inputs) = 4

\* C2: for a non-empty scenes list the clip inputs of the command are exactly
\* the scenes whose clip file exists, in request order; a missing clip is a
\* warning, not a failure; clipCount is the number of those inputs, at most the
\* number of requested scenes and equal to it when every clip file exists.
C2_ClipInputsAreExistingScenes ==
    (IsAssemble /\ job.name = "assemble_video.py" /\ job.pc # "start"
        /\ UsableClips # <<>>) =>
        /\ loc.cmd # NoCmd
        /\ ClipInputs(loc.cmd) = UsableClips
        /\ \A k \in DOMAIN ReqScenes :
              ClipPath(ReqProject, ReqScenes[k].sceneId) \notin fs.files =>
                  Log("Warning: Missing clip for scene " \o ToString(ReqScenes[k].sceneId))
                      \in Range(job.stderr)
        /\ JobError # "No video clips found to assemble"
        /\ (JobExited /\ job.rc = 0) =>
              /\ JobResult.clipCount = Len(ClipInputs(loc.cmd))
              /\ JobResult.clipCount <= Len(ReqScenes)
              /\ (Len(UsableClips) = Len(ReqScenes) => JobResult.clipCount = Len(ReqScenes))

\* a completed assembly of three requested scenes, one of them without a clip
C2_Witness ==
    /\ IsAssemble /\ phase = "Completed"
    /\ Len(ReqScenes) = 3
    /\ ReqScenes[1].sceneId = 2
    /\ response.body.clipCount = 2

\* C3: a request with a non-empty scenes list none of whose clip files exists
\* fails with the no-clips error and with no other error, and no encoder (or
\* other tool) is launched for it.
C3_NoClipsFoundOnly ==
    (IsAssemble /\ ReqScenes # <<>> /\ UsableClips = <<>>) =>
        /\ tool = NoTool
        /\ "ffmpeg" \notin Range(launched)
        /\ loc.cmd = NoCmd
        /\ phase # "Completed"
        /\ JobExited =>
              /\ job.rc = 1
              /\ job.stdout = <<>>
              /\ JobError = "No video clips found to assemble"
        /\ (phase = "Failed" /\ JobExited) =>
              /\ response.status = 500
              /\ response.body.stderr = job.stderr

\* the failure has been returned for a two-scene request without clips
C3_Witness ==
    /\ IsAssemble /\ phase = "Failed" /\ JobExited
    /\ Len(ReqScenes) = 2
    /\ UsableClips = <<>>
    /\ JobError = "No video clips found to assemble"

\* C4: an assemble request with scenes = [] fails before any external process
\* is invoked: from its receipt until the failure is returned, no external
\* process is launched for it (launched holds the processes started for the
\* request being handled, the dispatcher's stage job included).
C4_NoProcessLaunchedAtAll ==
    (IsAssemble /\ ReqScenes = <<>>) => launched = <<>>

AmixChains(cmd) ==
    {k \in DOMAIN cmd.filter_complex :
        \E x \in Range(cmd.filter_complex[k].filters) : x = "amix=inputs=2:duration=longest"}

VolumeChains(cmd) ==
    {k \in DOMAIN cmd.filter_complex :
        \E x \in Range(cmd.filter_complex[k].filters) :
            x \in {"volume=0.2", "volume=0.3", "volume=1.0"}}

\* the one chain that produces `label`, or 0
Producer(cmd, label) ==
    IF Cardinality(ChainsInto(cmd, label)) = 1
    THEN CHOOSE k \in ChainsInto(cmd, label) : TRUE
    ELSE 0

\* C5: a plan with a voiceover input has exactly one mix, of two inputs with
\* longest-duration semantics: the voiceover at weight 1.0 and the clip audio at
\* 0.3 (single clip) or the concatenated clip audio at 0.2 (multi clip); a plan
\* without a voiceover input has no mix, and in a multi-clip plan the
\* concatenated clip audio is then the output audio track.
C5_AudioMixGraph ==
    PlanBuilt =>
        LET cmd == loc.cmd
            fc == cmd.filter_complex
            N == Len(ClipInputs(cmd))
            hasVoiceover == OtherInputs(cmd) # <<>>
        IN  IF hasVoiceover
            THEN /\ Cardinality(AmixChains(cmd)) = 1
                 /\ \A m \in AmixChains(cmd) :
                      /\ fc[m].filters = <<"amix=inputs=2:duration=longest">>
                      /\ Len(fc[m].ins) = 2
                      /\ LET clipBranch == Producer(cmd, fc[m].ins[1])
                             voiceBranch == Producer(cmd, fc[m].ins[2])
                         IN  /\ clipBranch # 0 /\ voiceBranch # 0
                             /\ fc[voiceBranch].filters = <<"volume=1.0">>
                             /\ fc[voiceBranch].ins = <<InPad(Len(cmd.inputs) - 1, "a")>>
                             /\ cmd.inputs[Len(cmd.inputs)] = loc.voiceover_path
                             /\ IF N = 1
                                THEN /\ fc[clipBranch].filters = <<"volume=0.3">>
                                     /\ fc[clipBranch].ins = <<InPad(0, "a")>>
                                ELSE /\ fc[clipBranch].filters = <<"volume=0.2">>
                                     /\ Len(fc[clipBranch].ins) = 1
                                     /\ LET c == Producer(cmd, fc[clipBranch].ins[1])
                                        IN  /\ c # 0
                                            /\ fc[c].filters = <<ConcatFilter(N, 0, 1)>>
                                            /\ fc[c].ins = [i \in 1..N |-> InPad(i - 1, "a")]
                             /\ N >= 2 => /\ fc[m].outs = <<Label("aout")>>
                                          /\ Label("aout") \in Range(cmd.maps)
            ELSE /\ AmixChains(cmd) = {}
                 /\ VolumeChains(cmd) = {}
                 /\ N >= 2 =>
                      /\ Producer(cmd, Label("aout")) # 0
                      /\ fc[Producer(cmd, Label("aout"))].filters = <<ConcatFilter(N, 0, 1)>>
                      /\ fc[Producer(cmd, Label("aout"))].ins = [i \in 1..N |-> InPad(i - 1, "a")]
                      /\ Label("aout") \in Range(cmd.maps)

\* a two-clip plan that mixes in the voiceover
C5_Witness ==
    /\ PlanBuilt
    /\ Len(ClipInputs(loc.cmd)) = 2
    /\ OtherInputs(loc.cmd) = <<VoiceoverFile(ReqProject)>>
    /\ AmixChains(loc.cmd) # {}

\* the request gives no usable voiceover: none, one without a path, or one
\* whose file does not exist
ReqVoiceoverPath == Get(Get(body.json, "voiceover", EmptyObject), "voiceoverPath", None)
NoUsableVoiceover == ReqVoiceoverPath = None \/ ReqVoiceoverPath \notin fs.files

\* C6: a request whose voiceover is omitted, has no path or names a missing
\* file is handled as one without voiceover: it does not fail on that account,
\* the plan has no voiceover input and no mix, and hasVoiceover is false;
\* hasVoiceover is true exactly when the executed plan had the voiceover input.
C6_HasVoiceoverIffPlanned ==
    /\ (IsAssemble /\ job.name = "assemble_video.py" /\ job.pc # "start"
          /\ UsableClips # <<>> /\ NoUsableVoiceover) =>
            /\ loc.cmd # NoCmd
            /\ OtherInputs(loc.cmd) = <<>>
            /\ AmixChains(loc.cmd) = {}
            /\ (JobExited /\ job.rc = 0) => JobResult.hasVoiceover = FALSE
    /\ (PlanBuilt /\ JobExited /\ job.rc = 0) =>
            (JobResult.hasVoiceover <=> OtherInputs(loc.cmd) # <<>>)

TimedOutMessage == "Video assembly timed out (>10 minutes)"

\* C7: an encoder that outlives the 600 second bound ends the invocation with
\* the timeout error, which differs from the error of a non-zero exit, and the
\* encoder has been terminated by then: no state has the timeout returned and
\* the encoder still running.
C7_TimeoutLeavesNoEncoder ==
    (IsAssemble /\ job.name = "assemble_video.py" /\ tool.name = "ffmpeg") =>
        /\ (JobExited /\ tool.elapsed > EncoderTimeoutSecs) => JobError = TimedOutMessage
        /\ JobError = TimedOutMessage =>
              /\ tool.st = "killed"
              /\ tool.elapsed > EncoderTimeoutSecs
              /\ job.rc = 1
        /\ (JobExited /\ tool.st = "exited" /\ tool.rc # 0) =>
              /\ JobError # None
              /\ JobError # TimedOutMessage
        /\ JobExited => tool.st # "running"
        /\ (phase = "Failed" /\ JobExited) =>
              /\ tool.st # "running"
              /\ response.body.stderr = job.stderr

\* the timeout failure has been returned to the caller
C7_Witness ==
    /\ IsAssemble /\ phase = "Failed"
    /\ JobError = TimedOutMessage
    /\ tool.name = "ffmpeg" /\ tool.st = "killed"
    /\ response.status = 500

Terminal == phase \in {"Completed", "Failed"}

\* C8 as stated: a stage job that exits non-zero is answered with an HTTP error
\* status and a failure document made of the stage name and the captured error
\* text.
C8_FailureResponseNamesStage ==
    (Terminal /\ JobExited /\ job.rc # 0) =>
        /\ phase = "Failed"
        /\ response.status >= 400
        /\ "stderr" \in DOMAIN response.body
        /\ "stage" \in DOMAIN response.body
        /\ response.body.stage = stage

\* C8 (amended): for rank, voiceover and assemble alike, a stage job that
\* exits non-zero is answered with status 500 and the same failure document,
\* {error: "Script failed", stderr: <captured error text>}, which does not name
\* the stage; the dispatcher goes on to the next request, and it keeps nothing
\* of a finished request: every request starts from the same handler state.
C8_UniformFailureResponse ==
    /\ (Terminal /\ JobExited /\ job.rc # 0) =>
          /\ phase = "Failed"
          /\ response = [status |-> 500,
                         body |-> [error |-> "Script failed", stderr |-> job.stderr]]
          /\ JobError # None
    /\ phase = "Failed" => response.status = 500 /\ "error" \in DOMAIN response.body
    /\ phase \in {"Idle", "Received", "Decoded"} =>
          /\ job = NoJob /\ loc = NoLoc /\ tool = NoTool /\ launched = <<>>
          /\ response = NoResponse
    /\ phase = "Idle" => body = BadBody
    /\ Terminal => ENABLED Finish
    /\ (phase = "Idle" /\ served < MaxRequests) => ENABLED Receive

\* the second request is a voiceover request whose stage job failed
C8_Witness ==
    /\ served = 2
    /\ phase = "Failed" /\ stage = "voiceover"
    /\ JobExited /\ job.rc = 1
    /\ response.body.error = "Script failed"

IsRank == phase # "Idle" /\ stage = "rank" /\ body.ok
RankInput == IF body.json.type = "object" THEN <<body.json.obj>> ELSE body.json.items

\* C9: a single object is ranked as a one-element sequence; the ranking output
\* holds the input objects, one per input object and in input order, each with
\* a relevanceScore added, on every path.
C9_RankKeepsObjectsInOrder ==
    (IsRank /\ JobExited /\ \A k \in DOMAIN RankInput : "scalar" \notin DOMAIN RankInput[k]) =>
        /\ job.rc = 0
        /\ Len(job.stdout) = 1
        /\ JobResult.type = "array"
        /\ Len(JobResult.items) = Len(RankInput)
        /\ body.json.type = "object" => Len(JobResult.items) = 1
        /\ \A k \in DOMAIN RankInput :
              /\ DOMAIN JobResult.items[k] = DOMAIN RankInput[k] \cup {"relevanceScore"}
              /\ \A field \in DOMAIN RankInput[k] :
                    JobResult.items[k][field] = RankInput[k][field]
        /\ Terminal => phase = "Completed" /\ response.body = JobResult

\* a lone object has been ranked and returned as a one-element sequence
C9_Witness ==
    /\ IsRank /\ phase = "Completed"
    /\ body.json.type = "object"
    /\ Len(response.body.items) = 1
    /\ response.body.items[1].relevanceScore > 0

EncoderSucceeded ==
    \/ "ffprobe" \in Range(launched)
    \/ tool.name = "ffmpeg" /\ tool.st = "exited" /\ tool.rc = 0

\* ffprobe could not be started, timed out, exited non-zero or printed no number
ProbeFailed ==
    \/ tool.name = "ffmpeg"
    \/ tool.st = "killed"
    \/ tool.rc # 0
    \/ tool.out \notin {"12.5\n", "0.04\n"}

\* C10: the metadata probe never fails outward: whatever happens to ffprobe,
\* an assembly whose encoder succeeded completes, with resolution "1920x1080",
\* and with duration 0 when the probe failed.
C10_ProbeNeverFailsAssembly ==
    (IsAssemble /\ job.name = "assemble_video.py" /\ JobExited /\ EncoderSucceeded) =>
        /\ job.rc = 0
        /\ job.stderr[Len(job.stderr)].kind = "log"
        /\ JobResult.status = "completed"
        /\ JobResult.resolution = "1920x1080"
        /\ ProbeFailed => JobResult.duration = 0
        /\ ~ProbeFailed => JobResult.duration > 0
        /\ Terminal => phase = "Completed"

\* an assembly completed although its probe timed out
C10_Witness ==
    /\ IsAssemble /\ phase = "Completed"
    /\ tool.name = "ffprobe" /\ tool.st = "killed"
    /\ response.body.duration = 0
    /\ response.body.resolution = "1920x1080"

\* C11: every stage entry point ends in one of two ways: exit code 0 with the
\* JSON result (and nothing else) on standard output and no error document on
\* standard error, or exit code 1 with a JSON error document on standard error
\* and nothing on standard output; this on every path, the start without an
\* input argument included.
C11_ExitCodeAndStreams ==
    JobExited =>
        \/ /\ job.rc = 0
           /\ Len(job.stdout) = 1
           /\ job.stdout[1].kind = "json"
           /\ \A k \in DOMAIN job.stderr : job.stderr[k].kind = "log"
        \/ /\ job.rc = 1
           /\ job.stdout = <<>>
           /\ job.stderr # <<>>
           /\ LastStderr.kind = "json"
           /\ "error" \in DOMAIN LastStderr.doc

\* the filters of the plan's video transform: the -vf chain, and the chains of
\* the filter graph that read or produce a video stream
VideoFilters(cmd) ==
    Range(cmd.vf) \cup
    UNION { Range(cmd.filter_complex[k].filters) : k \in DOMAIN cmd.filter_complex }

\* C12: under the single-clip and the multi-clip strategy alike, the plan's
\* video transform has the color-grading filter exactly when the lookup table
\* exists at its shared location; without the table the plan is built without
\* the filter and without an error.
C12_GradingFilterIffLutPresent ==
    /\ PlanBuilt => (Lut3dFilter \in VideoFilters(loc.cmd) <=> LutPath \in fs.files)
    /\ (IsAssemble /\ JobExited /\ LutPath \notin fs.files) =>
            JobError \notin {"Assembly failed: [Errno 2] No such file or directory: '"
                               \o LutPath \o "'"}

\* C13: every request received goes on to Completed or Failed: the dispatched
\* stage job ends when its tool exits or times out, so no request stays in
\* Dispatched forever, whatever the stage and the tool.
C13_EveryRequestEnds ==
    (phase \in {"Received", "Decoded", "Dispatched"}) ~> Terminal

\* C14: every relevanceScore of a ranking output lies between 0 and 100 (kept
\* here in hundredths), whatever the length of the input and on every path:
\* scoring, missing fields, failed download, per-item exception, and the
\* default scores given when the scoring model cannot be loaded.
C14_ScoresWithinRange ==
    (stage = "rank" /\ job.name = "clip_ranker.py" /\ JobExited /\ job.rc = 0) =>
        \A k \in DOMAIN JobResult.items :
            /\ JobResult.items[k].relevanceScore >= 0
            /\ JobResult.items[k].relevanceScore <= 100 * 100

ProjectOf(h) == Get(h.body.json, "projectId", "unknown")
ConcClipPaths == {ClipPath(pid, sid) : pid \in ConcProjectIds, sid \in SceneIds}

\* the filesystem as a request finds it when it runs alone: the clips (and the
\* lookup table) that were there before any request; clips are never removed
FoundAlone == [fs EXCEPT !.files = @ \cap (ConcClipPaths \cup {LutPath})]

\* clips and plan of an assemble request that runs alone
ClipsAlone(h) ==
    CollectClips(FoundAlone, ProjectOf(h), Get(h.body.json, "scenes", <<>>))
PlanAlone(h) ==
    BuildCommand(FoundAlone, ClipsAlone(h),
                 Get(Get(h.body.json, "voiceover", EmptyObject), "voiceoverPath", None),
                 OutputFile(ProjectOf(h)), ConcatFile(ProjectOf(h)))

\* C15: concurrent voiceover and assemble requests for different projectIds do
\* not interfere, whatever the interleaving: every file and directory a request
\* makes (working directory, list-of-sources file, voiceover audio, output) is
\* that of its own projectId and is made by no other request, the clips it
\* reads are those of its own directory, and its plan and result are the ones
\* it has when it runs alone.
C15_DifferentProjectsDoNotInterfere ==
    (parked # NoHandler /\ ProjectOf(Handler) # ProjectOf(parked)) =>
        /\ fs.files \subseteq
              ConcClipPaths \cup
              UNION { {ConcatFile(ProjectOf(h)), VoiceoverFile(ProjectOf(h)),
                       OutputFile(ProjectOf(h))} : h \in {Handler, parked} }
        /\ \A h \in {Handler, parked} :
              LET pid == ProjectOf(h)
                  done == h.job.st = "exited" /\ h.job.rc = 0
                  result == h.job.stdout[1].doc
              IN  /\ ConcatFile(pid) \in fs.files =>
                        /\ h.stage = "assemble" /\ h.loc.clip_files # <<>>
                        /\ fs.concat[pid] = h.loc.clip_files
                  /\ VoiceoverFile(pid) \in fs.files =>
                        /\ h.stage = "voiceover"
                        /\ h.tool.st = "exited" /\ h.tool.rc = 0
                  /\ OutputFile(pid) \in fs.files =>
                        h.stage = "assemble" /\ "ffmpeg" \in Range(h.launched)
                  /\ ProjectDir(pid) \in fs.dirs =>
                        \/ h.job.pc \notin {"none", "start"}
                        \/ \E sid \in SceneIds : ClipPath(pid, sid) \in fs.files
                  /\ (h.stage = "assemble" /\ h.loc.cmd # NoCmd) =>
                        /\ h.loc.clip_files = ClipsAlone(h)
                        /\ h.loc.cmd = PlanAlone(h)
                        /\ \A k \in DOMAIN h.loc.cmd.inputs :
                              h.loc.cmd.inputs[k] \in
                                  {ClipPath(pid, sid) : sid \in SceneIds}
                                  \cup {VoiceoverFile(pid)}
                        /\ h.loc.cmd.output = OutputFile(pid)
                  /\ (h.stage = "assemble" /\ done) =>
                        /\ result.projectId = pid
                        /\ result.outputPath = OutputFile(pid)
                        /\ result.clipCount = Len(ClipsAlone(h))
                  /\ (h.stage = "voiceover" /\ done) =>
                        /\ result.projectId = pid
                        /\ result.voiceoverPath \in {VoiceoverFile(pid), None}
                        /\ result.voiceoverPath # None => VoiceoverFile(pid) \in fs.files

\* the assembly for p1 has encoded its two clips and is probing the output
\* while the voiceover job for p2, which has written its audio, has not yet
\* been returned to its caller
C15_Witness ==
    /\ parked # NoHandler
    /\ stage = "assemble" /\ ProjectOf(Handler) = "p1"
    /\ job.pc = "probing" /\ Len(loc.clip_files) = 2
    /\ OutputFile("p1") \in fs.files
    /\ parked.stage = "voiceover" /\ ProjectOf(parked) = "p2"
    /\ parked.phase = "Dispatched" /\ parked.job.st = "exited"
    /\ VoiceoverFile("p2") \in fs.files

====
